---- MODULE Spec2Model ----
(***************************************************************************)
(* RFIDServoController (4BTask-1.py): the access-control state machine,    *)
(* the console command loop and the status reporter, as three threads      *)
(* sharing the servo state, the configuration, the running flag and the    *)
(* serial port.  No lock exists in the source, so every read or write of   *)
(* a shared attribute and every entry to / return from ser.write is a      *)
(* step of its own.                                                        *)
(*                                                                         *)
(* Strings are sequences of one-character strings; an optional value is    *)
(* the empty sequence (absent) or a one-element sequence (present).        *)
(***************************************************************************)
EXTENDS Integers, Sequences, FiniteSets, TLC

VARIABLES
    config,                 \* self.config (the keys the core reads)
    servo_control_enabled,  \* self.servo_control_enabled
    current_servo_pos,      \* self.current_servo_pos
    running,                \* self.running
    ser,                    \* self.ser: "open" or "closed"
    closes,                 \* number of self.ser.close() calls made
    writers,                \* threads inside self.ser.write
    pc,                     \* position of each thread
    data,                   \* run: the packet just read, optional
    angle,                  \* process_user_input: pos, optional
    card,                   \* process_user_input: card, optional
    status,                 \* send_status_updates: the fields of status read so far
    emitted,                \* commands handed to send_command for the current card read
    failures,               \* how many of them raised SerialException
    updated,                \* the current transition has written the servo state
    skipped,                \* send_status_updates: this cycle's send_command raised
    witnessed               \* the enabled flags that stood beside the position just
                            \* read by send_status_updates while no writer was part-way

vars == <<config, servo_control_enabled, current_servo_pos, running, ser, closes,
          writers, pc, data, angle, card, status, emitted, failures, updated,
          skipped, witnessed>>

Threads == {"main", "status", "input"}

Range(s) == {s[i] : i \in 1..Len(s)}

(***************************************************************************)
(* Bounds and input samples.                                               *)
(***************************************************************************)
\* The authorized list grows without limit in the source; registration is
\* explored up to this many entries.
MaxCards == 3

\* set_servo_position's limits.
MinAngle == 0
MaxAngle == 180

\* Integers typed at the "Enter position" prompt.
Angles == {MinAngle - 1, MinAngle, MaxAngle, MaxAngle + 1}

\* "A1B2C3D4", "E5F6G7H8" and further identifiers, as strings.
CardA == <<"A", "1", "B", "2", "C", "3", "D", "4">>
CardE == <<"E", "5", "F", "6", "G", "7", "H", "8">>
CardLowerA == <<"a", "1", "b", "2", "c", "3", "d", "4">>
CardZ == <<"Z", "9">>

\* Lines typed at the "Enter new card ID" prompt.
CardInputs == { <<>>, <<" ">>, CardZ, <<" ">> \o CardZ \o <<" ">>, CardA, CardLowerA }

\* Lines typed at the "Enter command" prompt.
CommandInputs == { <<"1">>, <<"2">>, <<"3">>, <<"4">>, <<"5">>, <<"q">>,
                   <<" ", "Q", " ">>, <<"x">>, <<>> }

\* Packets the reader delivers (byte values).
BytesA == <<65, 49, 66, 50, 67, 51, 68, 52>>
BytesLowerA == <<97, 49, 98, 50, 99, 51, 100, 52>>
BytesZ == <<90, 57>>
Packets == { BytesA,
             BytesA \o <<13, 10>>,
             <<32>> \o BytesA,
             BytesLowerA,
             BytesZ,
             <<90, 32, 57>>,
             <<32>>,
             <<>> }

(***************************************************************************)
(* Characters and strings.                                                 *)
(***************************************************************************)
\* chr(byte) for the bytes that occur in Packets.
chr(byte) ==
    CASE byte = 10 -> "\n" [] byte = 13 -> "\r" [] byte = 32 -> " "
      [] byte = 49 -> "1"  [] byte = 50 -> "2"  [] byte = 51 -> "3"
      [] byte = 52 -> "4"  [] byte = 57 -> "9"
      [] byte = 65 -> "A"  [] byte = 66 -> "B"  [] byte = 67 -> "C"
      [] byte = 68 -> "D"  [] byte = 90 -> "Z"
      [] byte = 97 -> "a"  [] byte = 98 -> "b"  [] byte = 99 -> "c"
      [] byte = 100 -> "d"

\* str.isspace for the characters above.
Whitespace == {" ", "\t", "\n", "\r"}

RECURSIVE lstrip(_)
lstrip(s) == IF s # <<>> /\ Head(s) \in Whitespace THEN lstrip(Tail(s)) ELSE s

RECURSIVE rstrip(_)
rstrip(s) ==
    IF s # <<>> /\ s[Len(s)] \in Whitespace THEN rstrip(SubSeq(s, 1, Len(s) - 1)) ELSE s

\* str.strip(): leading and trailing whitespace removed, the inside kept.
strip(s) == rstrip(lstrip(s))

\* str.lower() on the characters of CommandInputs.
lower(s) == [i \in 1..Len(s) |-> IF s[i] = "Q" THEN "q" ELSE s[i]]

(***************************************************************************)
(* Configuration.                                                          *)
(***************************************************************************)
\* The dictionary __init__ builds.
DefaultConfig ==
    [ authorized_cards |-> <<CardA, CardE>>,
      servo_default_pos |-> 90,
      servo_allowed_pos |-> 180,
      led_pins |-> [green |-> 3, red |-> 4] ]

\* What open("config.json") can yield: no file, a file that is not JSON, or a
\* JSON object with some of the keys.
ConfigFiles ==
    { [kind |-> "missing", content |-> <<>>],
      [kind |-> "invalid", content |-> <<>>],
      [kind |-> "json", content |-> [led_pins |-> [green |-> 3],
                                     servo_default_pos |-> 0,
                                     servo_allowed_pos |-> 200]] }

\* load_config: dict.update of the defaults with the file's keys; a missing or
\* malformed file leaves the defaults.
load_config(cfg, file) ==
    IF file.kind = "json"
    THEN [k \in DOMAIN cfg \cup DOMAIN file.content |->
             IF k \in DOMAIN file.content THEN file.content[k] ELSE cfg[k]]
    ELSE cfg

\* dict.get(key): the value, optional.
get(dict, key) == IF key \in DOMAIN dict THEN <<dict[key]>> ELSE <<>>

(***************************************************************************)
(* Initial state: __init__ has returned, its status thread is started and  *)
(* run() has not yet started the console thread.                           *)
(***************************************************************************)
Init ==
    /\ \E file \in ConfigFiles : config = load_config(DefaultConfig, file)
    /\ servo_control_enabled = FALSE
    /\ current_servo_pos = DefaultConfig.servo_default_pos
    /\ running = TRUE
    /\ ser = "open"
    /\ closes = 0
    /\ writers = {}
    /\ pc = [main |-> "run", status |-> "status_loop", input |-> "not_started"]
    /\ data = <<>>
    /\ angle = <<>>
    /\ card = <<>>
    /\ status = <<>>
    /\ emitted = <<>>
    /\ failures = 0
    /\ updated = FALSE
    /\ skipped = FALSE
    /\ witnessed = {}

goto(t, label) == pc' = [pc EXCEPT ![t] = label]

(***************************************************************************)
(* send_command and the operations built on it.                            *)
(***************************************************************************)
\* No thread is between the two assignments of enable_servo_control or
\* disable_servo_control (lines 121-122, 127-128).
Quiet(at) == \A t \in {"main", "input"} : at[t] \notin {"enable_pos", "disable_pos"}

\* While send_status_updates is between its read of the position and its read
\* of the enabled flag: the flags that stood beside that position at a moment
\* when no writer was part-way.  The last conjunct of every action.
observe ==
    witnessed' =
        IF pc'["status"] = "status_enabled"
        THEN (IF pc["status"] = "status_enabled" THEN witnessed ELSE {})
             \cup (IF Quiet(pc') /\ current_servo_pos' = status'[1]
                   THEN {servo_control_enabled'} ELSE {})
        ELSE {}

\* The outcome of one send_command: the access controller's record of what it
\* handed over, and the status thread's result for this cycle.
log(t, command, ok) ==
    /\ IF t = "main"
       THEN /\ emitted' = Append(emitted, command)
            /\ failures' = failures + (IF ok THEN 0 ELSE 1)
       ELSE UNCHANGED <<emitted, failures>>
    /\ skipped' = IF t = "status" THEN ~ok ELSE skipped

\* send_command without its except clause: a SerialException leaves
\* handle_rfid_data through its own handler.
send_command_raising(t, command, next) ==
    \/ /\ t \notin writers
       /\ ser = "open"
       /\ writers' = writers \cup {t}
       /\ UNCHANGED <<pc, emitted, failures, skipped>>
    \/ /\ t \notin writers
       /\ UNCHANGED writers
       /\ goto(t, IF t = "main" THEN "sleep" ELSE next)
       /\ log(t, command, FALSE)
    \/ /\ t \in writers
       /\ writers' = writers \ {t}
       /\ \E ok \in (IF ser = "open" THEN BOOLEAN ELSE {FALSE}) :
             /\ log(t, command, ok)
             /\ goto(t, IF t = "main" /\ ~ok THEN "sleep" ELSE next)

\* send_command without its except clause, as the status thread meets it: the
\* SerialException ends send_status_updates.
send_command_uncaught(t, command, next) ==
    \/ /\ t \notin writers
       /\ ser = "open"
       /\ writers' = writers \cup {t}
       /\ UNCHANGED <<pc, emitted, failures, skipped>>
    \/ /\ t \notin writers
       /\ UNCHANGED writers
       /\ goto(t, IF t = "status" THEN "status_exit" ELSE next)
       /\ log(t, command, FALSE)
    \/ /\ t \in writers
       /\ writers' = writers \ {t}
       /\ \E ok \in (IF ser = "open" THEN BOOLEAN ELSE {FALSE}) :
             /\ log(t, command, ok)
             /\ goto(t, IF t = "status" /\ ~ok THEN "status_exit" ELSE next)

\* send_command: json.dumps, then ser.write under try/except SerialException.
\* The write is entered and left in separate steps; nothing excludes another
\* thread in between.  A SerialException (link fault, or port closed) is
\* printed and the caller continues at `next` all the same.
send_command(t, command, next) ==
    \/ /\ t \notin writers
       /\ ser = "open"
       /\ writers' = writers \cup {t}
       /\ UNCHANGED <<pc, emitted, failures, skipped>>
    \/ /\ t \notin writers
       /\ UNCHANGED writers
       /\ goto(t, next)
       /\ log(t, command, FALSE)
    \/ /\ t \in writers
       /\ writers' = writers \ {t}
       /\ goto(t, next)
       /\ \E ok \in (IF ser = "open" THEN BOOLEAN ELSE {FALSE}) : log(t, command, ok)

\* control_led without the test of the pin.
control_led_unconditional(t, color, state, next) ==
    send_command(t, <<"led", color, state>>, next)

\* control_led: a colour without a pin sends nothing.
control_led(t, color, state, next) ==
    IF get(config.led_pins, color) # <<>>
    THEN send_command(t, <<"led", color, state>>, next)
    ELSE goto(t, next) /\ UNCHANGED <<writers, emitted, failures, skipped>>

\* Where enable_servo_control / disable_servo_control return to.
after_enable(t) == IF t = "main" THEN "grant_sleep" ELSE "input_loop"
after_disable(t) == IF t = "main" THEN "deny_sleep" ELSE "input_loop"

noted(t) == IF t = "main" THEN TRUE ELSE updated

\* enable_servo_control, line 121.
enable_servo_control_flag(t) ==
    /\ pc[t] = "enable_flag"
    /\ servo_control_enabled' = TRUE
    /\ goto(t, "enable_pos")
    /\ UNCHANGED <<config, current_servo_pos, running, ser, closes, writers, data,
                   angle, card, status, emitted, failures, updated>>
    /\ UNCHANGED skipped
    /\ observe

\* enable_servo_control, line 122.
enable_servo_control_pos(t) ==
    /\ pc[t] = "enable_pos"
    /\ current_servo_pos' = config.servo_allowed_pos
    /\ updated' = noted(t)
    /\ goto(t, "enable_send")
    /\ UNCHANGED <<config, servo_control_enabled, running, ser, closes, writers, data,
                   angle, card, status, emitted, failures>>
    /\ UNCHANGED skipped
    /\ observe

\* enable_servo_control, line 123.
enable_servo_control_send(t) ==
    /\ pc[t] = "enable_send"
    /\ send_command(t, <<"servo", "enable", TRUE>>, after_enable(t))
    /\ UNCHANGED <<config, servo_control_enabled, current_servo_pos, running, ser,
                   closes, data, angle, card, status, updated>>
    /\ observe

\* disable_servo_control, line 127.
disable_servo_control_flag(t) ==
    /\ pc[t] = "disable_flag"
    /\ servo_control_enabled' = FALSE
    /\ goto(t, "disable_pos")
    /\ UNCHANGED <<config, current_servo_pos, running, ser, closes, writers, data,
                   angle, card, status, emitted, failures, updated>>
    /\ UNCHANGED skipped
    /\ observe

\* disable_servo_control, line 128.
disable_servo_control_pos(t) ==
    /\ pc[t] = "disable_pos"
    /\ current_servo_pos' = config.servo_default_pos
    /\ updated' = noted(t)
    /\ goto(t, "disable_send")
    /\ UNCHANGED <<config, servo_control_enabled, running, ser, closes, writers, data,
                   angle, card, status, emitted, failures>>
    /\ UNCHANGED skipped
    /\ observe

\* disable_servo_control, line 129.
disable_servo_control_send(t) ==
    /\ pc[t] = "disable_send"
    /\ send_command(t, <<"servo", "enable", FALSE>>, after_disable(t))
    /\ UNCHANGED <<config, servo_control_enabled, current_servo_pos, running, ser,
                   closes, data, angle, card, status, updated>>
    /\ observe

(***************************************************************************)
(* Main thread: run() and the access controller.                           *)
(***************************************************************************)
\* The identifier without .strip().
card_id_unstripped(packet) == [i \in 1..Len(packet) |-> chr(packet[i])]

\* handle_rfid_data, line 85: each byte to a character, joined, stripped.
card_id(packet) == strip([i \in 1..Len(packet) |-> chr(packet[i])])

\* handle_rfid_data, line 88: card_id in self.config["authorized_cards"].
is_authorized(id, cards) == id \in Range(cards)

\* run, lines 209-210: the console thread is started.
run_start ==
    /\ pc["main"] = "run"
    /\ pc' = [pc EXCEPT !["main"] = "loop", !["input"] = "input_loop"]
    /\ UNCHANGED <<config, servo_control_enabled, current_servo_pos, running, ser,
                   closes, writers, data, angle, card, status, emitted, failures, updated>>
    /\ UNCHANGED skipped
    /\ observe

\* run, line 215: while self.running.
run_loop ==
    /\ pc["main"] = "loop"
    /\ goto("main", IF running THEN "read" ELSE "finally")
    /\ UNCHANGED <<config, servo_control_enabled, current_servo_pos, running, ser,
                   closes, writers, data, angle, card, status, emitted, failures, updated>>
    /\ UNCHANGED skipped
    /\ observe

\* The device read on a task of its own, polling while a transition dwells.
run_read_during_dwell ==
    /\ pc["main"] \in {"read", "grant_sleep", "deny_sleep"}
    /\ \/ /\ goto("main", "sleep")
          /\ UNCHANGED data
       \/ \E packet \in Packets :
             /\ data' = <<packet>>
             /\ goto("main", IF is_authorized(card_id(packet), config.authorized_cards)
                             THEN "grant_led_on" ELSE "deny_led_on")
    /\ UNCHANGED <<config, servo_control_enabled, current_servo_pos, running, ser,
                   closes, writers, angle, card, status, emitted, failures, updated>>
    /\ UNCHANGED skipped
    /\ observe

\* run, lines 217-223, with handle_rfid_data's decision (lines 85-91): the
\* device read raises USBError, or delivers a packet whose identifier is looked
\* up in the authorized list.
run_read ==
    /\ pc["main"] = "read"
    /\ \/ /\ goto("main", "sleep")
          /\ UNCHANGED data
       \/ \E packet \in Packets :
             /\ data' = <<packet>>
             /\ goto("main", IF is_authorized(card_id(packet), config.authorized_cards)
                             THEN "grant_led_on" ELSE "deny_led_on")
    /\ UNCHANGED <<config, servo_control_enabled, current_servo_pos, running, ser,
                   closes, writers, angle, card, status, emitted, failures, updated>>
    /\ UNCHANGED skipped
    /\ observe

\* grant_access, line 99.
grant_access_led_on ==
    /\ pc["main"] = "grant_led_on"
    /\ control_led("main", "green", TRUE, "enable_flag")
    /\ data' = <<>>
    /\ UNCHANGED <<config, servo_control_enabled, current_servo_pos, running, ser,
                   closes, angle, card, status, updated>>
    /\ observe

\* The dwell handed to a timer: the loop goes on polling and the LED-off is
\* left to the timer.
grant_access_sleep_detached ==
    /\ pc["main"] = "grant_sleep"
    /\ goto("main", "loop")
    /\ UNCHANGED <<config, servo_control_enabled, current_servo_pos, running, ser,
                   closes, writers, data, angle, card, status, emitted, failures, updated>>
    /\ UNCHANGED skipped
    /\ observe

\* grant_access, line 101: the dwell.
grant_access_sleep ==
    /\ pc["main"] = "grant_sleep"
    /\ goto("main", "grant_led_off")
    /\ UNCHANGED <<config, servo_control_enabled, current_servo_pos, running, ser,
                   closes, writers, data, angle, card, status, emitted, failures, updated>>
    /\ UNCHANGED skipped
    /\ observe

\* grant_access, line 102.
grant_access_led_off ==
    /\ pc["main"] = "grant_led_off"
    /\ control_led("main", "green", FALSE, "grant_done")
    /\ UNCHANGED <<config, servo_control_enabled, current_servo_pos, running, ser,
                   closes, data, angle, card, status, updated>>
    /\ observe

\* deny_access, line 107.
deny_access_led_on ==
    /\ pc["main"] = "deny_led_on"
    /\ control_led("main", "red", TRUE, "disable_flag")
    /\ data' = <<>>
    /\ UNCHANGED <<config, servo_control_enabled, current_servo_pos, running, ser,
                   closes, angle, card, status, updated>>
    /\ observe

\* deny_access, line 109: the dwell.
deny_access_sleep ==
    /\ pc["main"] = "deny_sleep"
    /\ goto("main", "deny_led_off")
    /\ UNCHANGED <<config, servo_control_enabled, current_servo_pos, running, ser,
                   closes, writers, data, angle, card, status, emitted, failures, updated>>
    /\ UNCHANGED skipped
    /\ observe

\* deny_access, line 110.
deny_access_led_off ==
    /\ pc["main"] = "deny_led_off"
    /\ control_led("main", "red", FALSE, "deny_done")
    /\ UNCHANGED <<config, servo_control_enabled, current_servo_pos, running, ser,
                   closes, data, angle, card, status, updated>>
    /\ observe

\* run, line 224: handle_rfid_data has returned (or USBError was passed over);
\* time.sleep(0.1) and back to the loop test.
run_sleep ==
    /\ pc["main"] \in {"grant_done", "deny_done", "sleep"}
    /\ goto("main", "loop")
    /\ emitted' = <<>>
    /\ failures' = 0
    /\ updated' = FALSE
    /\ UNCHANGED <<config, servo_control_enabled, current_servo_pos, running, ser,
                   closes, writers, data, angle, card, status>>
    /\ UNCHANGED skipped
    /\ observe

\* The positions of the main thread inside run's try block.
InTry ==
    {"run", "loop", "read", "sleep",
     "grant_led_on", "grant_sleep", "grant_led_off", "grant_done",
     "deny_led_on", "deny_sleep", "deny_led_off", "deny_done",
     "enable_flag", "enable_pos", "enable_send",
     "disable_flag", "disable_pos", "disable_send"}

\* run, lines 226-227: Ctrl-C reaches the main thread at any point of the try
\* block (handle_rfid_data catches Exception, which KeyboardInterrupt is not).
run_KeyboardInterrupt ==
    /\ pc["main"] \in InTry
    /\ running' = FALSE
    /\ goto("main", "finally")
    /\ writers' = writers \ {"main"}
    /\ data' = <<>>
    /\ emitted' = <<>>
    /\ failures' = 0
    /\ updated' = FALSE
    /\ UNCHANGED <<config, servo_control_enabled, current_servo_pos, ser, closes,
                   angle, card, status>>
    /\ UNCHANGED skipped
    /\ observe

\* run, lines 228-230: finally: self.ser.close().
run_finally ==
    /\ pc["main"] = "finally"
    /\ ser' = "closed"
    /\ closes' = closes + 1
    /\ goto("main", "exit")
    /\ UNCHANGED <<config, servo_control_enabled, current_servo_pos, running,
                   writers, data, angle, card, status, emitted, failures, updated>>
    /\ UNCHANGED skipped
    /\ observe

(***************************************************************************)
(* Status thread: send_status_updates.                                     *)
(***************************************************************************)
\* line 149: while self.running.
send_status_updates_loop ==
    /\ pc["status"] = "status_loop"
    /\ goto("status", IF running THEN "status_pos" ELSE "status_exit")
    /\ skipped' = FALSE
    /\ UNCHANGED <<config, servo_control_enabled, current_servo_pos, running, ser,
                   closes, writers, data, angle, card, status, emitted, failures, updated>>
    /\ observe

\* line 153: "position": self.current_servo_pos.
send_status_updates_pos ==
    /\ pc["status"] = "status_pos"
    /\ status' = <<current_servo_pos>>
    /\ goto("status", "status_enabled")
    /\ UNCHANGED <<config, servo_control_enabled, current_servo_pos, running, ser,
                   closes, writers, data, angle, card, emitted, failures, updated>>
    /\ UNCHANGED skipped
    /\ observe

\* line 154: "enabled": self.servo_control_enabled.
send_status_updates_enabled ==
    /\ pc["status"] = "status_enabled"
    /\ status' = Append(status, servo_control_enabled)
    /\ goto("status", "status_cards")
    /\ UNCHANGED <<config, servo_control_enabled, current_servo_pos, running, ser,
                   closes, writers, data, angle, card, emitted, failures, updated>>
    /\ UNCHANGED skipped
    /\ observe

\* The count taken from the built-in list instead of the current one.
send_status_updates_cards_builtin ==
    /\ pc["status"] = "status_cards"
    /\ status' = Append(status, Len(DefaultConfig.authorized_cards))
    /\ goto("status", "status_send")
    /\ UNCHANGED <<config, servo_control_enabled, current_servo_pos, running, ser,
                   closes, writers, data, angle, card, emitted, failures, updated>>
    /\ UNCHANGED skipped
    /\ observe

\* line 157: "cards_registered": len(self.config["authorized_cards"]).
send_status_updates_cards ==
    /\ pc["status"] = "status_cards"
    /\ status' = Append(status, Len(config.authorized_cards))
    /\ goto("status", "status_send")
    /\ UNCHANGED <<config, servo_control_enabled, current_servo_pos, running, ser,
                   closes, writers, data, angle, card, emitted, failures, updated>>
    /\ UNCHANGED skipped
    /\ observe

\* lines 161-162: send_command(status); time.sleep(2).  json.dumps has read the
\* dictionary before the write is entered; it is not read again.
send_status_updates_send ==
    /\ pc["status"] = "status_send"
    /\ send_command("status", <<"status", status>>, "status_loop")
    /\ status' = <<>>
    /\ UNCHANGED <<config, servo_control_enabled, current_servo_pos, running, ser,
                   closes, data, angle, card, updated>>
    /\ observe

(***************************************************************************)
(* Console thread: process_user_input.                                     *)
(***************************************************************************)
\* line 174: while self.running.
process_user_input_loop ==
    /\ pc["input"] = "input_loop"
    /\ goto("input", IF running THEN "input_cmd" ELSE "input_exit")
    /\ UNCHANGED <<config, servo_control_enabled, current_servo_pos, running, ser,
                   closes, writers, data, angle, card, status, emitted, failures, updated>>
    /\ UNCHANGED skipped
    /\ observe

\* line 175: cmd = input(...).strip().lower().
command(line) == lower(strip(line))

\* lines 177-178: '1'.
process_user_input_enable ==
    /\ pc["input"] = "input_cmd"
    /\ \E line \in CommandInputs : command(line) = <<"1">>
    /\ goto("input", "enable_flag")
    /\ UNCHANGED <<config, servo_control_enabled, current_servo_pos, running, ser,
                   closes, writers, data, angle, card, status, emitted, failures, updated>>
    /\ UNCHANGED skipped
    /\ observe

\* lines 179-180: '2'.
process_user_input_disable ==
    /\ pc["input"] = "input_cmd"
    /\ \E line \in CommandInputs : command(line) = <<"2">>
    /\ goto("input", "disable_flag")
    /\ UNCHANGED <<config, servo_control_enabled, current_servo_pos, running, ser,
                   closes, writers, data, angle, card, status, emitted, failures, updated>>
    /\ UNCHANGED skipped
    /\ observe

\* lines 181-183 and 188-189: '3'; int(input(...)) yields an integer or raises
\* ValueError, which is printed.
process_user_input_position ==
    /\ pc["input"] = "input_cmd"
    /\ \E line \in CommandInputs : command(line) = <<"3">>
    /\ \/ \E a \in Angles : angle' = <<a>> /\ goto("input", "set_servo_position")
       \/ angle' = <<>> /\ goto("input", "input_loop")
    /\ UNCHANGED <<config, servo_control_enabled, current_servo_pos, running, ser,
                   closes, writers, data, card, status, emitted, failures, updated>>
    /\ UNCHANGED skipped
    /\ observe

\* The range test with strict comparisons.
in_range_exclusive(a) == MinAngle < a /\ a < MaxAngle

\* set_servo_position, line 133: 0 <= angle <= 180.
in_range(a) == MinAngle <= a /\ a <= MaxAngle

\* set_servo_position switching servo control on when it accepts an angle.
set_servo_position_enabling ==
    /\ pc["input"] = "set_servo_position"
    /\ IF in_range(angle[1])
       THEN /\ current_servo_pos' = angle[1]
            /\ servo_control_enabled' = TRUE
            /\ goto("input", "set_position_send")
       ELSE /\ UNCHANGED <<current_servo_pos, servo_control_enabled>>
            /\ goto("input", "set_position_false")
    /\ UNCHANGED <<config, running, ser, closes, writers, data, angle, card, status,
                   emitted, failures, updated>>
    /\ UNCHANGED skipped
    /\ observe

\* set_servo_position, lines 133-134 and 137: the range test, the assignment,
\* or the return of False (line 187 prints it).
set_servo_position ==
    /\ pc["input"] = "set_servo_position"
    /\ IF in_range(angle[1])
       THEN /\ current_servo_pos' = angle[1]
            /\ goto("input", "set_position_send")
       ELSE /\ UNCHANGED current_servo_pos
            /\ goto("input", "set_position_false")
    /\ UNCHANGED <<config, servo_control_enabled, running, ser, closes, writers, data,
                   angle, card, status, emitted, failures, updated>>
    /\ UNCHANGED skipped
    /\ observe

\* set_servo_position, lines 135-136: the command is sent and True returned.
set_servo_position_send ==
    /\ pc["input"] = "set_position_send"
    /\ send_command("input", <<"servo", "set_position", angle[1]>>, "set_position_true")
    /\ UNCHANGED <<config, servo_control_enabled, current_servo_pos, running, ser,
                   closes, data, angle, card, status, updated>>
    /\ observe

\* lines 184-187: the result of set_servo_position is printed.
process_user_input_position_done ==
    /\ pc["input"] \in {"set_position_true", "set_position_false"}
    /\ angle' = <<>>
    /\ goto("input", "input_loop")
    /\ UNCHANGED <<config, servo_control_enabled, current_servo_pos, running, ser,
                   closes, writers, data, card, status, emitted, failures, updated>>
    /\ UNCHANGED skipped
    /\ observe

\* The registration test without `card not in authorized_cards`.
register_unchecked(id, cards) == IF id # <<>> THEN Append(cards, id) ELSE cards

\* lines 192-193: the test `card and card not in authorized_cards`, and append.
register(id, cards) ==
    IF id # <<>> /\ id \notin Range(cards) THEN Append(cards, id) ELSE cards

\* lines 190-191: '4'; card = input(...).strip().
process_user_input_card ==
    /\ pc["input"] = "input_cmd"
    /\ \E line \in CommandInputs : command(line) = <<"4">>
    /\ \E line \in CardInputs :
          /\ Len(register(strip(line), config.authorized_cards)) <= MaxCards
          /\ card' = <<strip(line)>>
    /\ goto("input", "add_card")
    /\ UNCHANGED <<config, servo_control_enabled, current_servo_pos, running, ser,
                   closes, writers, data, angle, status, emitted, failures, updated>>
    /\ UNCHANGED skipped
    /\ observe

\* lines 192-193: the card is appended, or refused.
process_user_input_add_card ==
    /\ pc["input"] = "add_card"
    /\ config' = [config EXCEPT !.authorized_cards = register(card[1], @)]
    /\ goto("input", IF config' # config THEN "card_added" ELSE "card_refused")
    /\ UNCHANGED <<servo_control_enabled, current_servo_pos, running, ser, closes,
                   writers, data, angle, card, status, emitted, failures, updated>>
    /\ UNCHANGED skipped
    /\ observe

\* lines 194 and 196: the outcome is printed.
process_user_input_card_done ==
    /\ pc["input"] \in {"card_added", "card_refused"}
    /\ card' = <<>>
    /\ goto("input", "input_loop")
    /\ UNCHANGED <<config, servo_control_enabled, current_servo_pos, running, ser,
                   closes, writers, data, angle, status, emitted, failures, updated>>
    /\ UNCHANGED skipped
    /\ observe

\* lines 197-198: '5'; save_config writes the file and changes nothing in memory.
process_user_input_save ==
    /\ pc["input"] = "input_cmd"
    /\ \E line \in CommandInputs : command(line) = <<"5">>
    /\ goto("input", "input_loop")
    /\ UNCHANGED <<config, servo_control_enabled, current_servo_pos, running, ser,
                   closes, writers, data, angle, card, status, emitted, failures, updated>>
    /\ UNCHANGED skipped
    /\ observe

\* lines 199-201: 'q'.
process_user_input_quit ==
    /\ pc["input"] = "input_cmd"
    /\ \E line \in CommandInputs : command(line) = <<"q">>
    /\ running' = FALSE
    /\ goto("input", "input_loop")
    /\ UNCHANGED <<config, servo_control_enabled, current_servo_pos, ser, closes,
                   writers, data, angle, card, status, emitted, failures, updated>>
    /\ UNCHANGED skipped
    /\ observe

\* lines 202-203: anything else.
process_user_input_invalid ==
    /\ pc["input"] = "input_cmd"
    /\ \E line \in CommandInputs :
          command(line) \notin {<<"1">>, <<"2">>, <<"3">>, <<"4">>, <<"5">>, <<"q">>}
    /\ goto("input", "input_loop")
    /\ UNCHANGED <<config, servo_control_enabled, current_servo_pos, running, ser,
                   closes, writers, data, angle, card, status, emitted, failures, updated>>
    /\ UNCHANGED skipped
    /\ observe

(***************************************************************************)
(* The system.                                                             *)
(***************************************************************************)
Next ==
    \/ run_start
    \/ run_loop
    \/ run_read
    \/ grant_access_led_on
    \/ grant_access_sleep
    \/ grant_access_led_off
    \/ deny_access_led_on
    \/ deny_access_sleep
    \/ deny_access_led_off
    \/ run_sleep
    \/ run_KeyboardInterrupt
    \/ run_finally
    \/ \E t \in {"main", "input"} : enable_servo_control_flag(t)
    \/ \E t \in {"main", "input"} : enable_servo_control_pos(t)
    \/ \E t \in {"main", "input"} : enable_servo_control_send(t)
    \/ \E t \in {"main", "input"} : disable_servo_control_flag(t)
    \/ \E t \in {"main", "input"} : disable_servo_control_pos(t)
    \/ \E t \in {"main", "input"} : disable_servo_control_send(t)
    \/ send_status_updates_loop
    \/ send_status_updates_pos
    \/ send_status_updates_enabled
    \/ send_status_updates_cards
    \/ send_status_updates_send
    \/ process_user_input_loop
    \/ process_user_input_enable
    \/ process_user_input_disable
    \/ process_user_input_position
    \/ set_servo_position
    \/ set_servo_position_send
    \/ process_user_input_position_done
    \/ process_user_input_card
    \/ process_user_input_add_card
    \/ process_user_input_card_done
    \/ process_user_input_save
    \/ process_user_input_quit
    \/ process_user_input_invalid

Spec == Init /\ [][Next]_vars

\* A step in which ser.write raises: the access controller counts it, the
\* status thread notes it, and the console thread leaves a send without having
\* written, or returns from a write on the closed port.
Fails ==
    \/ failures' > failures
    \/ skipped' /\ ~skipped
    \/ /\ pc["input"] \in {"enable_send", "disable_send", "set_position_send"}
       /\ pc'["input"] # pc["input"]
       /\ "input" \notin writers \/ ser = "closed"

\* The executions in which no ser.write raises.
FaultFreeNext == Next /\ ~Fails

FaultFreeSpec == Init /\ [][FaultFreeNext]_vars

(***************************************************************************)
(* Properties.                                                             *)
(***************************************************************************)
Chars(packet) == [i \in 1..Len(packet) |-> chr(packet[i])]

Least(S) == CHOOSE x \in S : \A y \in S : x <= y
Greatest(S) == CHOOSE x \in S : \A y \in S : y <= x

\* s without its leading and trailing whitespace.
Trimmed(s) ==
    LET keep == {i \in 1..Len(s) : s[i] \notin Whitespace}
    IN  IF keep = {} THEN <<>> ELSE SubSeq(s, Least(keep), Greatest(keep))

IsPrefix(a, b) == Len(a) <= Len(b) /\ a = SubSeq(b, 1, Len(a))

GrantLabels == {"grant_led_on", "enable_flag", "enable_pos", "enable_send",
                "grant_sleep", "grant_led_off", "grant_done"}
DenyLabels == {"deny_led_on", "disable_flag", "disable_pos", "disable_send",
               "deny_sleep", "deny_led_off", "deny_done"}

GrantTriple == << <<"led", "green", TRUE>>, <<"servo", "enable", TRUE>>,
                  <<"led", "green", FALSE>> >>
DenyTriple == << <<"led", "red", TRUE>>, <<"servo", "enable", FALSE>>,
                 <<"led", "red", FALSE>> >>

\* A triple without the LED commands of a colour that has no pin.
WithPins(triple) ==
    LET pinned(c) == c[1] # "led" \/ c[2] \in DOMAIN config.led_pins
        F[i \in 0..Len(triple)] ==
            IF i = 0 THEN <<>>
            ELSE IF pinned(triple[i]) THEN Append(F[i - 1], triple[i]) ELSE F[i - 1]
    IN  F[Len(triple)]

\* C1: a packet handed to handle_rfid_data starts exactly one of the grant and
\* the deny transition, and the grant transition exactly when its bytes, as
\* characters and trimmed, are an entry of the authorized list at that moment
\* (entries compared character by character, so case matters).
C1_GrantIffAuthorized ==
    [][ (pc["main"] = "read" /\ data' # <<>>) =>
            /\ pc'["main"] \in {"grant_led_on", "deny_led_on"}
            /\ pc'["main"] = "grant_led_on"
                  <=> (\E i \in 1..Len(config.authorized_cards) :
                          config.authorized_cards[i] = Trimmed(Chars(data'[1]))) ]_vars

\* A packet with trailing CR LF is granted.
C1_Witness ==
    /\ pc["main"] = "grant_led_on"
    /\ data = <<BytesA \o <<13, 10>>>>

\* C2 as stated: at the step with which grant_access has sent its last LED-off
\* and returns, the servo is enabled at servo_allowed_pos.
C2_GrantEndsEnabled ==
    [][ (pc["main"] = "grant_led_off" /\ pc'["main"] = "grant_done") =>
            /\ servo_control_enabled' = TRUE
            /\ current_servo_pos' = config.servo_allowed_pos ]_vars

\* C3 as stated: at the step with which deny_access has sent its last LED-off
\* and returns, the servo is disabled at servo_default_pos.
C3_DenyEndsDisabled ==
    [][ (pc["main"] = "deny_led_off" /\ pc'["main"] = "deny_done") =>
            /\ servo_control_enabled' = FALSE
            /\ current_servo_pos' = config.servo_default_pos ]_vars

\* C4 as stated: at most one thread is inside send_command's write at a time.
C4_OneWriter == Cardinality(writers) <= 1

\* C5 as stated: a completed grant has emitted the green triple, a completed
\* deny the red triple.
C5_Triples ==
    /\ pc["main"] = "grant_done" => emitted = GrantTriple
    /\ pc["main"] = "deny_done" => emitted = DenyTriple

\* C5, amended: what the access controller has emitted for the current card
\* read is at every moment a prefix of its triple less the LED commands of a
\* colour without a pin, all of it once the transition is complete, and
\* nothing outside a transition.
C5_TriplesOfPinnedColours ==
    /\ pc["main"] \in GrantLabels => IsPrefix(emitted, WithPins(GrantTriple))
    /\ pc["main"] = "grant_done" => emitted = WithPins(GrantTriple)
    /\ pc["main"] \in DenyLabels => IsPrefix(emitted, WithPins(DenyTriple))
    /\ pc["main"] = "deny_done" => emitted = WithPins(DenyTriple)
    /\ pc["main"] \notin GrantLabels \cup DenyLabels => emitted = <<>>

\* A deny has completed with all three commands emitted.
C5_Witness == pc["main"] = "deny_done" /\ emitted = DenyTriple

\* C9 as stated: a completed transition has attempted all three emissions and
\* written the servo state.
C9_ThreeAttempts ==
    pc["main"] \in {"grant_done", "deny_done"} => Len(emitted) = 3 /\ updated

\* Where control continues after the send at each sending position of a
\* transition.
AfterSend(label) ==
    CASE label = "grant_led_on" -> "enable_flag"
      [] label = "enable_send" -> "grant_sleep"
      [] label = "grant_led_off" -> "grant_done"
      [] label = "deny_led_on" -> "disable_flag"
      [] label = "disable_send" -> "deny_sleep"
      [] label = "deny_led_off" -> "deny_done"

\* C9, amended: a send of a transition that fails continues exactly where a
\* send that succeeds continues; a completed transition has attempted every
\* emission of its sequence (the triple less the LED commands of a colour
\* without a pin) whatever the number of failures, and has written the servo
\* state; and from its end the controller goes back to the loop test unless
\* Ctrl-C ends the loop.
C9_FailureDoesNotAbort ==
    /\ [][ failures' > failures => pc'["main"] = AfterSend(pc["main"]) ]_vars
    /\ [](pc["main"] = "grant_done" =>
              emitted = WithPins(GrantTriple) /\ updated /\ failures <= Len(emitted))
    /\ [](pc["main"] = "deny_done" =>
              emitted = WithPins(DenyTriple) /\ updated /\ failures <= Len(emitted))
    /\ [][ (pc["main"] \in {"grant_done", "deny_done"} /\ pc'["main"] # pc["main"]) =>
              pc'["main"] \in {"loop", "finally"} ]_vars

\* A grant has completed, and has enabled the servo, with all three sends failed.
C9_Witness ==
    /\ pc["main"] = "grant_done"
    /\ failures = 3
    /\ updated
    /\ servo_control_enabled

InRange(a) == 0 <= a /\ a <= 180

\* C6: set_servo_position(angle) with 0 <= angle <= 180 writes angle to the
\* position, goes on to send SetServoPosition{angle} and returns True; with any
\* other angle it returns False at once, having written nothing and sent
\* nothing.  The enabled flag plays no part.
C6_PositionIffInRange ==
    /\ [][ (pc["input"] = "set_servo_position" /\ pc'["input"] # pc["input"]) =>
              IF InRange(angle[1])
              THEN /\ current_servo_pos' = angle[1]
                   /\ pc'["input"] = "set_position_send"
                   /\ angle' = angle
              ELSE /\ pc'["input"] = "set_position_false"
                   /\ current_servo_pos' = current_servo_pos
                   /\ servo_control_enabled' = servo_control_enabled
                   /\ writers' = writers ]_vars
    /\ [][ (pc'["input"] = "set_position_true" /\ pc["input"] # pc'["input"]) =>
              pc["input"] = "set_position_send" /\ angle' = angle ]_vars
    /\ [](pc["input"] \in {"set_position_send", "set_position_true"} => InRange(angle[1]))
    /\ [](pc["input"] = "set_position_false" => ~InRange(angle[1]))

\* set_servo_position(180) has returned True with the servo disabled.
C6_Witness ==
    /\ pc["input"] = "set_position_true"
    /\ angle = <<180>>
    /\ current_servo_pos = 180
    /\ servo_control_enabled = FALSE

\* A step taken by the console thread.
InputStep ==
    \/ pc'["input"] # pc["input"]
    \/ ("input" \in writers') # ("input" \in writers)

\* C7: no step of set_servo_position, for an accepted or a rejected angle,
\* changes servo_control_enabled or the authorized list.
C7_PositionKeepsEnabled ==
    [][ (pc["input"] \in {"set_servo_position", "set_position_send"} /\ InputStep) =>
            /\ servo_control_enabled' = servo_control_enabled
            /\ config'.authorized_cards = config.authorized_cards ]_vars

\* set_servo_position(0) has returned True and the servo is still enabled.
C7_Witness ==
    /\ pc["input"] = "set_position_true"
    /\ angle = <<0>>
    /\ current_servo_pos = 0
    /\ servo_control_enabled = TRUE

NoEmptyCard == \A i \in 1..Len(config.authorized_cards) : config.authorized_cards[i] # <<>>
NoDuplicateCard ==
    \A i, j \in 1..Len(config.authorized_cards) :
        config.authorized_cards[i] = config.authorized_cards[j] => i = j

\* C8: registering an empty identifier, or one already in the list, leaves the
\* list as it is; any other identifier is appended; nothing else changes the
\* list; so the list never holds an empty identifier or the same identifier
\* twice.
C8_Register ==
    /\ [][ (pc["input"] = "add_card" /\ pc'["input"] # pc["input"]) =>
              LET old == config.authorized_cards
                  new == config'.authorized_cards
                  known == \E i \in 1..Len(old) : old[i] = card[1]
              IN  IF card[1] = <<>> \/ known
                  THEN new = old /\ pc'["input"] = "card_refused"
                  ELSE new = old \o <<card[1]>> /\ pc'["input"] = "card_added" ]_vars
    /\ [][ config'.authorized_cards # config.authorized_cards =>
              pc["input"] = "add_card" ]_vars
    /\ [](NoEmptyCard /\ NoDuplicateCard)

\* "Z9" has been registered and its second registration refused.
C8_Witness ==
    /\ pc["input"] = "card_refused"
    /\ card = <<CardZ>>
    /\ config.authorized_cards = <<CardA, CardE, CardZ>>

\* C10 as stated: the port is closed once, and while it is closed neither the
\* status loop nor the console loop is inside an iteration (each has stopped, or
\* stands at its loop test with the flag cleared).
C10_ClosedAfterLoops ==
    ser = "closed" =>
        /\ closes = 1
        /\ pc["status"] \in {"status_loop", "status_exit"}
        /\ pc["input"] \in {"input_loop", "input_exit", "not_started"}

(***************************************************************************)
(* The status reporter, the dwell and the start-up state.                  *)
(***************************************************************************)
\* A step taken by the status thread.
StatusStep ==
    \/ pc'["status"] # pc["status"]
    \/ ("status" \in writers') # ("status" \in writers)

\* C11: a step of the Status Reporter leaves the position, the enabled flag,
\* the authorized list and the shutdown flag as they were, and the
\* cards_registered field it puts into the snapshot is the number of distinct
\* identifiers in the authorized list at the moment it reads it.
C11_ReporterOnlyReads ==
    [][StatusStep =>
          /\ current_servo_pos' = current_servo_pos
          /\ servo_control_enabled' = servo_control_enabled
          /\ config' = config
          /\ running' = running
          /\ (pc["status"] = "status_cards" /\ pc'["status"] = "status_send"
                => /\ Len(status') = 3
                   /\ status'[3] = Cardinality(Range(config.authorized_cards)))]_vars

\* A snapshot is ready to be sent and counts a card registered at the console.
C11_Witness ==
    /\ pc["status"] = "status_send"
    /\ Len(status) = 3
    /\ status[3] = Cardinality(Range(config.authorized_cards))
    /\ status[3] > Cardinality({CardA, CardE})

Dwell == {"grant_sleep", "deny_sleep"}

\* The status thread's next step, whichever it is.
StatusNext ==
    \/ send_status_updates_loop
    \/ send_status_updates_pos
    \/ send_status_updates_enabled
    \/ send_status_updates_cards
    \/ send_status_updates_send

C14_PositionInBounds ==
    current_servo_pos \in 0..180

\* A step that begins a grant or deny transition.
TransitionBegins ==
    /\ pc'["main"] \in {"grant_led_on", "deny_led_on"}
    /\ pc'["main"] # pc["main"]

\* C16: a grant or deny transition begins only in the polling loop's read,
\* with every command of the transition before it handed over (the record of
\* the earlier transition is closed and nothing of it is being written); and
\* that record is closed only after the transition's final LED-off, or by the
\* interrupt that ends the loop.
C16_OneTransitionAtATime ==
    [][/\ TransitionBegins =>
             /\ pc["main"] = "read"
             /\ emitted = <<>>
             /\ "main" \notin writers
       /\ (emitted # <<>> /\ emitted' = <<>>) =>
             \/ pc["main"] \in {"grant_done", "deny_done"}
             \/ pc'["main"] = "finally"]_vars

\* A deny transition begins, the servo enabled by an earlier operation and
\* nothing of an earlier transition pending.
C16_Witness ==
    /\ pc["main"] = "deny_led_on"
    /\ data # <<>>
    /\ emitted = <<>>
    /\ servo_control_enabled
    /\ current_servo_pos = config.servo_allowed_pos

\* C17: before any credential read or console command (run has not begun),
\* the servo is disabled and at the servo_default_pos of the effective
\* configuration.
C17_StartupState ==
    (pc["main"] = "run" /\ pc["input"] = "not_started") =>
        /\ ~servo_control_enabled
        /\ current_servo_pos = config.servo_default_pos

(***************************************************************************)
(* Snapshots, shutdown, failures of the reporter, and the wire.            *)
(***************************************************************************)
\* C13: the (position, enabled) pair of a snapshot is the servo state of one
\* moment, between the reporter's two reads, at which no enable or disable was
\* between its two assignments: when the reporter reads the enabled flag, that
\* flag has stood beside the position it read at such a moment.
C13_ConsistentSnapshot ==
    [][(pc["status"] = "status_enabled" /\ pc'["status"] = "status_cards")
          => servo_control_enabled \in witnessed]_vars

\* The console thread's steps that take no line from the user.
InputInternal ==
    \/ process_user_input_loop
    \/ enable_servo_control_flag("input")
    \/ enable_servo_control_pos("input")
    \/ enable_servo_control_send("input")
    \/ disable_servo_control_flag("input")
    \/ disable_servo_control_pos("input")
    \/ disable_servo_control_send("input")
    \/ set_servo_position
    \/ set_servo_position_send
    \/ process_user_input_position_done
    \/ process_user_input_add_card
    \/ process_user_input_card_done

\* The main thread's steps, the interrupt apart.
MainInternal ==
    \/ run_start
    \/ run_loop
    \/ run_read
    \/ grant_access_led_on
    \/ grant_access_sleep
    \/ grant_access_led_off
    \/ deny_access_led_on
    \/ deny_access_sleep
    \/ deny_access_led_off
    \/ run_sleep
    \/ enable_servo_control_flag("main")
    \/ enable_servo_control_pos("main")
    \/ enable_servo_control_send("main")
    \/ disable_servo_control_flag("main")
    \/ disable_servo_control_pos("main")
    \/ disable_servo_control_send("main")

\* C15: once the shutdown flag is set, each loop that has not terminated goes
\* on by itself to its next loop test, where it exits: the reader loop, the
\* reporter loop and the console loop each have a step of their own to take
\* until they have left their loop.
C15_LoopsExitUnprompted ==
    ~running =>
        /\ pc["main"] \in {"finally", "exit"} \/ ENABLED MainInternal
        /\ pc["status"] = "status_exit" \/ ENABLED StatusNext
        /\ pc["input"] \in {"input_exit", "not_started"} \/ ENABLED InputInternal

\* C18: a send of the reporter that raises takes the reporter to its loop
\* test with nothing being written; its next step is that test, which starts
\* the next cycle's reads unless the shutdown flag is set; and neither the
\* reporter loop nor the reader loop is ever left except on the shutdown flag.
C18_ReporterSurvivesFailure ==
    [][/\ (skipped' /\ ~skipped) =>
             /\ pc'["status"] = "status_loop"
             /\ "status" \notin writers'
       /\ (skipped /\ StatusStep) =>
             pc'["status"] = (IF running THEN "status_pos" ELSE "status_exit")
       /\ (pc'["status"] = "status_exit" /\ pc["status"] # "status_exit") => ~running
       /\ (pc'["main"] = "finally" /\ pc["main"] # "finally") => ~running']_vars

\* A snapshot send has raised and the reporter, the flag clear and the port
\* open, is at its loop test.
C18_Witness ==
    /\ skipped
    /\ pc["status"] = "status_loop"
    /\ running
    /\ ser = "open"

OpLabels == {"enable_flag", "enable_pos", "enable_send",
             "disable_flag", "disable_pos", "disable_send"}

\* C19: with no write raising, when a thread's SetServoEnabled has just been
\* written and neither the access controller nor the console is inside an
\* enable or disable, servo_control_enabled is the value that message carried.
C19_WireAgreesWithFlag ==
    [][\A t \in {"main", "input"} :
          (/\ pc[t] \in {"enable_send", "disable_send"}
           /\ t \in writers
           /\ t \notin writers'
           /\ pc'["main"] \notin OpLabels \cup {"finally", "exit"}
           /\ pc'["input"] \notin OpLabels)
          => servo_control_enabled' = (pc[t] = "enable_send")]_vars

====
